---------------------------- MODULE Spec2Model ----------------------------
(***************************************************************************)
(* XAUCopilot: the two tools of src/xaucopilot.py.                         *)
(*                                                                         *)
(*   XAUPriceFetchTool._run  fetch 1h bars, resample to 4h, RSI(14),       *)
(*                           EMA(50), last 12 rows rounded to 2 decimals   *)
(*   NewsSearchTool._run     one search capped at 3 results, one text      *)
(*                           record per result, or a neutral sentinel      *)
(*                                                                         *)
(* A float64 is modelled as an extended rational: a reduced fraction n/d,  *)
(* an infinity, or NaN.  Sums, differences and quotients of the RSI        *)
(* pipeline are exact; the EMA recursion, whose exact value has the        *)
(* denominator 51^t, is rounded to the grid 1/Resolution at every step,    *)
(* the way a double rounds every operation.                                *)
(***************************************************************************)
EXTENDS Integers, Sequences, FiniteSets

\* ------------------------------------------------------------------------
\* Program constants
\* ------------------------------------------------------------------------
ResampleHours == 4
RSIWindow == 14
EMASpan == 50
TailRows == 12
Decimals == 2
MaxResults == 3

\* ------------------------------------------------------------------------
\* Bounds of the model
\* ------------------------------------------------------------------------
MaxBars == 3
MaxRows == 16
MaxHits == 4

\* Grid of the fixed-point rounding that stands for float64 rounding in EMA.
Resolution == 10 ^ 5

\* ------------------------------------------------------------------------
\* float64 as extended rationals
\* ------------------------------------------------------------------------
Abs(a) == IF a < 0 THEN -a ELSE a

RECURSIVE GCD(_, _)
GCD(a, b) == IF b = 0 THEN a ELSE GCD(b, a % b)

Num(n, d) ==
    LET g == GCD(Abs(n), Abs(d))
        s == IF d < 0 THEN -1 ELSE 1
    IN  [k |-> "num", n |-> s * (n \div g), d |-> s * (d \div g)]

NaN == [k |-> "nan", n |-> 0, d |-> 1]
Inf(s) == [k |-> "inf", n |-> s, d |-> 1]
Zero == Num(0, 1)
Int2F(i) == Num(i, 1)

IsNaN(x) == x.k = "nan"
IsNum(x) == x.k = "num"
Sign(x) == IF x.n > 0 THEN 1 ELSE IF x.n < 0 THEN -1 ELSE 0

FNeg(x) == IF IsNaN(x) THEN NaN ELSE [x EXCEPT !.n = -x.n]

FAdd(x, y) ==
    IF IsNaN(x) \/ IsNaN(y) THEN NaN
    ELSE IF x.k = "inf" /\ y.k = "inf" THEN (IF x.n = y.n THEN x ELSE NaN)
    ELSE IF x.k = "inf" THEN x
    ELSE IF y.k = "inf" THEN y
    ELSE LET g == GCD(x.d, y.d)
             l == (x.d \div g) * y.d
         IN  Num(x.n * (l \div x.d) + y.n * (l \div y.d), l)

FSub(x, y) == FAdd(x, FNeg(y))

\* IEEE division: x/0 is an infinity for x # 0 and NaN for x = 0.
FDiv(x, y) ==
    IF IsNaN(x) \/ IsNaN(y) THEN NaN
    ELSE IF x.k = "inf" /\ y.k = "inf" THEN NaN
    ELSE IF x.k = "inf" THEN Inf(x.n * (IF y.n < 0 THEN -1 ELSE 1))
    ELSE IF y.k = "inf" THEN Zero
    ELSE IF y.n = 0 THEN (IF x.n = 0 THEN NaN ELSE Inf(Sign(x)))
    ELSE LET g1 == GCD(Abs(x.n), Abs(y.n))
             g2 == GCD(x.d, y.d)
         IN  Num((x.n \div g1) * (y.d \div g2), (x.d \div g2) * (y.n \div g1))

\* Comparisons are false when either side is NaN.
FLt(x, y) == ~IsNaN(x) /\ ~IsNaN(y) /\ Sign(FSub(y, x)) > 0
FLe(x, y) == ~IsNaN(x) /\ ~IsNaN(y) /\ Sign(FSub(y, x)) >= 0
FMax(x, y) == IF FLt(x, y) THEN y ELSE x
FMin(x, y) == IF FLt(y, x) THEN y ELSE x

\* Nearest integer to a/b (b > 0), ties to even.
RoundHalfEven(a, b) ==
    LET q == a \div b
        r == a % b
    IN  IF 2 * r < b THEN q
        ELSE IF 2 * r > b THEN q + 1
        ELSE IF q % 2 = 0 THEN q ELSE q + 1

\* DataFrame.round(decimals) on one cell.
Round(x, decimals) ==
    IF ~IsNum(x) THEN x
    ELSE Num(RoundHalfEven(x.n * (10 ^ decimals), x.d), 10 ^ decimals)


\* ------------------------------------------------------------------------
\* Sequence helpers
\* ------------------------------------------------------------------------
Column(rows, f) == [i \in 1..Len(rows) |-> rows[i][f]]

\* ------------------------------------------------------------------------
\* history.resample('4h').agg(ohlc_dict).dropna()
\* ------------------------------------------------------------------------
OHLC == <<"Open", "High", "Low", "Close">>

ohlc_dict == [Open |-> "first", High |-> "max", Low |-> "min", Close |-> "last"]

\* The aggregations skip missing values; NaN when nothing is left.
RECURSIVE AggFirst(_)
AggFirst(xs) ==
    IF xs = <<>> THEN NaN
    ELSE IF ~IsNaN(Head(xs)) THEN Head(xs) ELSE AggFirst(Tail(xs))

RECURSIVE AggLast(_)
AggLast(xs) ==
    IF xs = <<>> THEN NaN
    ELSE IF ~IsNaN(xs[Len(xs)]) THEN xs[Len(xs)]
    ELSE AggLast(SubSeq(xs, 1, Len(xs) - 1))

RECURSIVE AggMax(_)
AggMax(xs) ==
    IF xs = <<>> THEN NaN
    ELSE LET m == AggMax(Tail(xs))
         IN  IF IsNaN(Head(xs)) THEN m
             ELSE IF IsNaN(m) THEN Head(xs) ELSE FMax(Head(xs), m)

RECURSIVE AggMin(_)
AggMin(xs) ==
    IF xs = <<>> THEN NaN
    ELSE LET m == AggMin(Tail(xs))
         IN  IF IsNaN(Head(xs)) THEN m
             ELSE IF IsNaN(m) THEN Head(xs) ELSE FMin(Head(xs), m)

\* first and last taken by position, missing or not
AggKeepNa(how, xs) ==
    CASE how = "first" -> (IF xs = <<>> THEN NaN ELSE xs[1])
      [] how = "last"  -> (IF xs = <<>> THEN NaN ELSE xs[Len(xs)])
      [] how = "max"   -> AggMax(xs)
      [] how = "min"   -> AggMin(xs)

Agg(how, xs) ==
    CASE how = "first" -> AggFirst(xs)
      [] how = "last"  -> AggLast(xs)
      [] how = "max"   -> AggMax(xs)
      [] how = "min"   -> AggMin(xs)

\* The 4-hour bin of a timestamp (hours since a midnight), and its label.
Window(ts) == ts \div ResampleHours
WindowStart(w) == w * ResampleHours

InWindow(bars, w) == SelectSeq(bars, LAMBDA b : Window(b.ts) = w)

\* One row per bin from the first bar's bin to the last bar's, empty or not.
ResampleAgg(bars, how) ==
    IF bars = <<>> THEN <<>>
    ELSE LET w0 == Window(bars[1].ts)
             w1 == Window(bars[Len(bars)].ts)
         IN  [i \in 1..(w1 - w0 + 1) |->
                LET obs == InWindow(bars, w0 + i - 1)
                IN  [ts    |-> WindowStart(w0 + i - 1),
                     Open  |-> Agg(how.Open, Column(obs, "Open")),
                     High  |-> Agg(how.High, Column(obs, "High")),
                     Low   |-> Agg(how.Low, Column(obs, "Low")),
                     Close |-> Agg(how.Close, Column(obs, "Close"))]]

HasNa(row) == \E i \in 1..Len(OHLC) : IsNaN(row[OHLC[i]])

DropNa(rows) == SelectSeq(rows, LAMBDA r : ~HasNa(r))

Resample(bars) == DropNa(ResampleAgg(bars, ohlc_dict))

\* ------------------------------------------------------------------------
\* Indicators
\* ------------------------------------------------------------------------
\* Series.diff(): undefined on the first row.
Diff(xs) ==
    [i \in 1..Len(xs) |-> IF i = 1 THEN NaN ELSE FSub(xs[i], xs[i - 1])]

\* delta.where(delta > 0, 0): a NaN delta fails the test and becomes 0.
GainTerms(delta) ==
    [i \in 1..Len(delta) |-> IF FLt(Zero, delta[i]) THEN delta[i] ELSE Zero]

\* -delta.where(delta < 0, 0)
LossTerms(delta) ==
    [i \in 1..Len(delta) |->
        FNeg(IF FLt(delta[i], Zero) THEN delta[i] ELSE Zero)]

RECURSIVE FSum(_)
FSum(xs) == IF xs = <<>> THEN Zero ELSE FAdd(Head(xs), FSum(Tail(xs)))

\* rolling(window).mean(): undefined until the window is full.
RollingMean(xs, window) ==
    [i \in 1..Len(xs) |->
        IF i < window THEN NaN
        ELSE FDiv(FSum(SubSeq(xs, i - window + 1, i)), Int2F(window))]

Gain(closes) == RollingMean(GainTerms(Diff(closes)), RSIWindow)
Loss(closes) == RollingMean(LossTerms(Diff(closes)), RSIWindow)

\* 100 - (100 / rs)
RSIOfNoOne(gain, loss) ==
    LET rs == FDiv(gain, loss)
    IN  FSub(Int2F(100), FDiv(Int2F(100), rs))

\* a zero loss replaced by a missing value before dividing
RSIOfZeroLossNaN(gain, loss) ==
    LET rs == FDiv(gain, IF loss = Zero THEN NaN ELSE loss)
    IN  FSub(Int2F(100), FDiv(Int2F(100), FAdd(Int2F(1), rs)))

\* 100 - (100 / (1 + rs)), rs = gain / loss
RSIOf(gain, loss) ==
    LET rs == FDiv(gain, loss)
    IN  FSub(Int2F(100), FDiv(Int2F(100), FAdd(Int2F(1), rs)))

RSI(closes) ==
    LET gain == Gain(closes)
        loss == Loss(closes)
    IN  [i \in 1..Len(closes) |-> RSIOf(gain[i], loss[i])]

\* A value already on the grid, in grid units.
Units(x) == x.n * (Resolution \div x.d)

\* ewm(span, adjust=False): y0 = x0, y_t = (1 - a) y_(t-1) + a x_t,
\* a = 2 / (span + 1).
EwmSeed(x0) == x0

\* a = 1 / (span + 1), the smoothing of ewm(com=span)
EwmStepCom(prev, x, span) ==
    Num(RoundHalfEven(span * Units(prev) + Units(x), span + 1), Resolution)

EwmStep(prev, x, span) ==
    Num(RoundHalfEven((span - 1) * Units(prev) + 2 * Units(x), span + 1),
        Resolution)

RECURSIVE EwmMean(_, _)
EwmMean(xs, span) ==
    IF xs = <<>> THEN <<>>
    ELSE IF Len(xs) = 1 THEN <<EwmSeed(xs[1])>>
    ELSE LET init == EwmMean(SubSeq(xs, 1, Len(xs) - 1), span)
         IN  Append(init, EwmStep(init[Len(init)], xs[Len(xs)], span))

WithIndicators(rows) ==
    LET closes == Column(rows, "Close")
        rsi    == RSI(closes)
        ema    == EwmMean(closes, EMASpan)
    IN  [i \in 1..Len(rows) |->
            [ts     |-> rows[i].ts,
             Open   |-> rows[i].Open,
             High   |-> rows[i].High,
             Low    |-> rows[i].Low,
             Close  |-> rows[i].Close,
             RSI    |-> rsi[i],
             EMA_50 |-> ema[i]]]

\* ------------------------------------------------------------------------
\* data_4h[['Close', 'RSI', 'EMA_50']].tail(12).round(2), to_string()
\* ------------------------------------------------------------------------
Columns == <<"Close", "RSI", "EMA_50">>

SelectColumns(rows) ==
    [i \in 1..Len(rows) |->
        [ts |-> rows[i].ts, Close |-> rows[i].Close, RSI |-> rows[i].RSI,
         EMA_50 |-> rows[i].EMA_50]]

TailOfOneMore(rows, n) ==
    IF Len(rows) <= n + 1 THEN rows ELSE SubSeq(rows, Len(rows) - n, Len(rows))

TailOf(rows, n) ==
    IF Len(rows) <= n THEN rows ELSE SubSeq(rows, Len(rows) - n + 1, Len(rows))

RoundRows(rows, decimals) ==
    [i \in 1..Len(rows) |->
        [ts     |-> rows[i].ts,
         Close  |-> Round(rows[i].Close, decimals),
         RSI    |-> Round(rows[i].RSI, decimals),
         EMA_50 |-> Round(rows[i].EMA_50, decimals)]]

FinalDf(rows) == RoundRows(TailOf(SelectColumns(rows), TailRows), Decimals)


\* ------------------------------------------------------------------------
\* Python strings as sequences of fragments: the literal text of the source
\* and the values interpolated into it.
\* ------------------------------------------------------------------------
Lit(text) == [t |-> "lit", s |-> text]
Val(v) == [t |-> "val", s |-> v]

IsLit(f, text) == f.t = "lit" /\ f.s = text

Cell(x) ==
    [txt |-> IF IsNaN(x) THEN "NaN"
             ELSE IF x.k = "inf" THEN (IF x.n > 0 THEN "inf" ELSE "-inf")
             ELSE "number",
     v   |-> x]

\* DataFrame.to_string(): a header and one line per row.
ToString(df) ==
    IF df = <<>>
    THEN <<Lit("Empty DataFrame"), Lit("Columns: "), Val(Columns),
           Lit("Index: []")>>
    ELSE <<[t |-> "table",
            s |-> [header |-> Columns,
                   lines  |-> [i \in 1..Len(df) |->
                                 [ts    |-> df[i].ts,
                                  cells |-> <<Cell(df[i].Close),
                                              Cell(df[i].RSI),
                                              Cell(df[i].EMA_50)>>]]]]>>

RECURSIVE Join(_, _)
Join(sep, strs) ==
    IF strs = <<>> THEN <<>>
    ELSE IF Len(strs) = 1 THEN strs[1]
    ELSE strs[1] \o <<Lit(sep)>> \o Join(sep, Tail(strs))

NotReturned == [returned |-> FALSE, frags |-> <<>>]
Returned(frags) == [returned |-> TRUE, frags |-> frags]

\* ------------------------------------------------------------------------
\* Exceptions
\* ------------------------------------------------------------------------
NoException == [cls |-> "None", msg |-> ""]

\* Failures of a provider, and failures of the computation on its answer.
ProviderErrors ==
    {[cls |-> "ConnectionError", msg |-> "connection failed"],
     [cls |-> "TimeoutError", msg |-> "timed out"]}

ComputeErrors == {[cls |-> "KeyError", msg |-> "'Close'"]}

\* Classes an `except Exception` clause catches.
ExceptionSubclasses == {"ConnectionError", "TimeoutError", "KeyError"}

CaughtNarrow(e) == e.cls = "ConnectionError"
Caught(e) == e.cls \in ExceptionSubclasses

\* ------------------------------------------------------------------------
\* What the market-data provider may return
\* ------------------------------------------------------------------------
Price(k) == Num(20000 + 4 * k, 1000)

BarA == [Open |-> Price(1), High |-> Price(3), Low |-> Price(0), Close |-> Price(2)]
BarB == [Open |-> Price(2), High |-> Price(4), Low |-> Price(1), Close |-> Price(1)]

\* Complete bars and bars with some fields missing.
BarShapes ==
    {BarA, BarB,
     [BarA EXCEPT !.Open = NaN, !.High = NaN],
     [BarB EXCEPT !.Close = NaN, !.Low = NaN]}

Stamp(shape, ts) ==
    [ts |-> ts, Open |-> shape.Open, High |-> shape.High, Low |-> shape.Low,
     Close |-> shape.Close]

FirstHours == {3}
HourGaps == {1, 6}

RECURSIVE BarsOfLen(_)
BarsOfLen(n) ==
    IF n = 0 THEN {<<>>}
    ELSE IF n = 1 THEN {<<Stamp(b, t)>> : b \in BarShapes, t \in FirstHours}
    ELSE {Append(h, Stamp(b, h[Len(h)].ts + g)) :
            h \in BarsOfLen(n - 1), b \in BarShapes, g \in HourGaps}

ShortHistories == UNION {BarsOfLen(n) : n \in 0..MaxBars}

\* One flat bar per 4-hour window; the close moves by d1 per window for the
\* first k windows and by d2 afterwards.
Deltas == {-1, 0, 2}

FlatBar(ts, k) ==
    [ts |-> ts, Open |-> Price(k), High |-> Price(k), Low |-> Price(k),
     Close |-> Price(k)]

Trend(n, k, d1, d2) ==
    [i \in 1..n |->
        FlatBar(ResampleHours * (i - 1),
                50 + (IF i - 1 <= k THEN d1 * (i - 1)
                      ELSE d1 * k + d2 * (i - 1 - k)))]

TrendHistories ==
    {Trend(n, k, d1, d2) : n \in 1..MaxRows, k \in 0..MaxRows,
                           d1 \in Deltas, d2 \in Deltas}

MarketHistories == ShortHistories \cup TrendHistories

\* ------------------------------------------------------------------------
\* What the search provider may hold for a query
\* ------------------------------------------------------------------------
Missing == "<missing>"

HitFull == [title |-> "Gold rallies", body |-> "Spot gold rose", date |-> "2026-01-05"]
HitBare == [title |-> Missing, body |-> Missing, date |-> Missing]
HitEcho == [title |-> "Assume Neutral", body |-> "NEWS TITLE: ", date |-> Missing]

Hits == {HitFull, HitBare, HitEcho}

RECURSIVE HitLists(_)
HitLists(n) ==
    IF n = 0 THEN {<<>>}
    ELSE HitLists(n - 1) \cup
         {Append(l, h) : l \in {x \in HitLists(n - 1) : Len(x) = n - 1}, h \in Hits}

Queries == {"Gold Price News", "Federal Reserve outlook"}

TextUncapped(matching, max_results) == matching

\* ddgs.text(query, max_results, timelimit): at most max_results results.
Text(matching, max_results) ==
    IF Len(matching) <= max_results THEN matching
    ELSE SubSeq(matching, 1, max_results)

\* r.get(key, default)
Get(r, key, default) == IF r[key] = Missing THEN default ELSE r[key]

NewsRecord(r) ==
    <<Lit("NEWS TITLE: "), Val(Get(r, "title", "No Title")),
      Lit("\nDATE: "), Val(Get(r, "date", "Unknown Date")),
      Lit("\nSNIPPET: "), Val(Get(r, "body", "No snippet")),
      Lit("\n---")>>

Sentinel ==
    <<Lit("No news found in the last 24 hours. "), Lit("Assume Neutral"), Lit(".")>>


\* ------------------------------------------------------------------------
\* State
\* ------------------------------------------------------------------------
VARIABLES
    pc,          \* position in the running _run, "idle" before, "done" after
    tool,        \* which tool is running: "none", "price" or "news"
    history,     \* price tool: the bars fetched
    data_4h,     \* price tool: the resampled frame
    final_df,    \* price tool: the frame rendered
    ran,         \* price tool: the steps executed so far in this call
    matching,    \* news tool: what the provider holds for the query
    search_gen,  \* news tool: results not yet iterated
    results,     \* news tool: records built so far
    ret,         \* the string returned
    exc,         \* the exception raised inside the try block, if any
    escaped      \* TRUE when that exception left _run

vars == <<pc, tool, history, data_4h, final_df, ran, matching,
          search_gen, results, ret, exc, escaped>>

priceLocals == <<history, data_4h, final_df, ran>>
newsLocals == <<matching, search_gen, results>>

Init ==
    /\ pc = "idle"
    /\ tool = "none"
    /\ history = <<>>
    /\ data_4h = <<>>
    /\ final_df = <<>>
    /\ ran = <<>>
    /\ matching = <<>>
    /\ search_gen = <<>>
    /\ results = <<>>
    /\ ret = NotReturned
    /\ exc = NoException
    /\ escaped = FALSE

\* except Exception as e: return f"<prefix>{str(e)}"
Except(e, prefix) ==
    /\ pc' = "done"
    /\ exc' = e
    /\ IF Caught(e)
       THEN /\ ret' = Returned(<<Lit(prefix), Val(e.msg)>>)
            /\ escaped' = FALSE
       ELSE /\ ret' = ret
            /\ escaped' = TRUE

\* ------------------------------------------------------------------------
\* XAUPriceFetchTool._run
\* ------------------------------------------------------------------------
PriceError == "Error processing data: "
CouldNotFetch == <<Lit("Error: Could not fetch data.")>>

EmptyNever(h) == FALSE
Empty(h) == Len(h) = 0

\* The provider answers with bars (possibly none).
PriceFetch(q, h) ==
    /\ pc = "idle"
    /\ tool' = "price"
    /\ history' = h
    /\ ran' = <<"fetch">>
    /\ IF Empty(h)
       THEN /\ pc' = "done"
            /\ ret' = Returned(CouldNotFetch)
       ELSE /\ pc' = "resample"
            /\ ret' = ret
    /\ UNCHANGED <<data_4h, final_df, exc, escaped>>
    /\ UNCHANGED newsLocals

\* The provider fails.
PriceFetchFails(q, e) ==
    /\ pc = "idle"
    /\ tool' = "price"
    /\ Except(e, PriceError)
    /\ UNCHANGED priceLocals
    /\ UNCHANGED newsLocals

PriceResample ==
    /\ pc = "resample"
    /\ data_4h' = Resample(history)
    /\ ran' = Append(ran, "resample")
    /\ pc' = "indicators"
    /\ UNCHANGED <<tool, history, final_df, ret, exc, escaped>>
    /\ UNCHANGED newsLocals

PriceIndicators ==
    /\ pc = "indicators"
    /\ data_4h' = WithIndicators(data_4h)
    /\ ran' = ran \o <<"rsi", "ema">>
    /\ pc' = "select"
    /\ UNCHANGED <<tool, history, final_df, ret, exc, escaped>>
    /\ UNCHANGED newsLocals

PriceSelect ==
    /\ pc = "select"
    /\ final_df' = FinalDf(data_4h)
    /\ ran' = Append(ran, "select")
    /\ pc' = "render"
    /\ UNCHANGED <<tool, history, data_4h, ret, exc, escaped>>
    /\ UNCHANGED newsLocals

PriceRender ==
    /\ pc = "render"
    /\ ret' = Returned(ToString(final_df))
    /\ ran' = Append(ran, "render")
    /\ pc' = "done"
    /\ UNCHANGED <<tool, history, data_4h, final_df, exc, escaped>>
    /\ UNCHANGED newsLocals

\* Resampling, the indicator math, the selection or the rendering raises.
PriceRaise(e) ==
    /\ pc \in {"resample", "indicators", "select", "render"}
    /\ Except(e, PriceError)
    /\ UNCHANGED tool
    /\ UNCHANGED priceLocals
    /\ UNCHANGED newsLocals

\* ------------------------------------------------------------------------
\* NewsSearchTool._run
\* ------------------------------------------------------------------------
SearchError == "Search Error: "

NewsSearch(q, m) ==
    /\ pc = "idle"
    /\ tool' = "news"
    /\ matching' = m
    /\ results' = <<>>
    /\ search_gen' = Text(m, MaxResults)
    /\ pc' = "iterate"
    /\ UNCHANGED <<ret, exc, escaped>>
    /\ UNCHANGED priceLocals

NewsSearchFails(q, e) ==
    /\ pc = "idle"
    /\ tool' = "news"
    /\ Except(e, SearchError)
    /\ UNCHANGED newsLocals
    /\ UNCHANGED priceLocals

\* One turn of the loop over the results.
NewsIterate ==
    /\ pc = "iterate"
    /\ search_gen # <<>>
    /\ results' = Append(results, NewsRecord(Head(search_gen)))
    /\ search_gen' = Tail(search_gen)
    /\ UNCHANGED <<pc, tool, matching, ret, exc, escaped>>
    /\ UNCHANGED priceLocals

\* Fetching the next result, or reading it, raises.
NewsRaise(e) ==
    /\ pc = "iterate"
    /\ Except(e, SearchError)
    /\ UNCHANGED tool
    /\ UNCHANGED newsLocals
    /\ UNCHANGED priceLocals

NewsOutputNoSentinel(records) == Join("\n", records)
NewsOutput(records) ==
    IF records = <<>> THEN Sentinel ELSE Join("\n", records)

NewsReturn ==
    /\ pc = "iterate"
    /\ search_gen = <<>>
    /\ ret' = Returned(NewsOutput(results))
    /\ pc' = "done"
    /\ UNCHANGED <<tool, exc, escaped>>
    /\ UNCHANGED newsLocals
    /\ UNCHANGED priceLocals

Next ==
    \/ \E q \in Queries, h \in MarketHistories : PriceFetch(q, h)
    \/ \E q \in Queries, e \in ProviderErrors : PriceFetchFails(q, e)
    \/ PriceResample
    \/ PriceIndicators
    \/ PriceSelect
    \/ PriceRender
    \/ \E e \in ComputeErrors : PriceRaise(e)
    \/ \E q \in Queries, m \in HitLists(MaxHits) : NewsSearch(q, m)
    \/ \E q \in Queries, e \in ProviderErrors : NewsSearchFails(q, e)
    \/ NewsIterate
    \/ \E e \in ProviderErrors \cup ComputeErrors : NewsRaise(e)
    \/ NewsReturn

Spec == Init /\ [][Next]_vars


\* ------------------------------------------------------------------------
\* Properties
\* ------------------------------------------------------------------------
StartsWith(r, prefix) ==
    r.returned /\ Len(r.frags) >= 1 /\ IsLit(r.frags[1], prefix)

IsTable(r) == r.returned /\ Len(r.frags) = 1 /\ r.frags[1].t = "table"

TableLines == ret.frags[1].s.lines

\* Positions in the returned string where a news record starts.
RecordStarts ==
    {i \in 1..Len(ret.frags) : IsLit(ret.frags[i], "NEWS TITLE: ")}

HasSentinel ==
    \E i \in 1..Len(ret.frags) : IsLit(ret.frags[i], "Assume Neutral")

Min(a, b) == IF a < b THEN a ELSE b

\* C1: neither tool lets an exception out: a finished call has returned a
\* string, and when the fetch, the resampling, the indicator math or the
\* rendering raised, the price tool's string starts with
\* "Error processing data: "; when the search or the iteration over its
\* results raised, the news tool's string starts with "Search Error: ".
C1_ExceptionsReturnedAsStrings ==
    /\ ~escaped
    /\ pc = "done" => ret.returned
    /\ (pc = "done" /\ exc # NoException /\ tool = "price")
          => /\ StartsWith(ret, "Error processing data: ")
             /\ ret.frags[2] = Val(exc.msg)
    /\ (pc = "done" /\ exc # NoException /\ tool = "news")
          => /\ StartsWith(ret, "Search Error: ")
             /\ ret.frags[2] = Val(exc.msg)

C1_Witness ==
    /\ pc = "done"
    /\ tool = "price"
    /\ exc.cls = "KeyError"
    /\ ran = <<"fetch", "resample">>
    /\ StartsWith(ret, "Error processing data: ")

\* C2: when the provider returns no bars the price tool returns exactly
\* "Error: Could not fetch data." and nothing after the fetch runs: no
\* resampling, no indicator, no selection, no rendering, no except branch.
C2_EmptyHistoryStopsAtFetch ==
    (tool = "price" /\ ran # <<>> /\ history = <<>>)
        => /\ pc = "done"
           /\ ret = Returned(<<Lit("Error: Could not fetch data.")>>)
           /\ ran = <<"fetch">>
           /\ data_4h = <<>>
           /\ final_df = <<>>
           /\ exc = NoException

C2_Witness ==
    /\ tool = "price"
    /\ pc = "done"
    /\ history = <<>>
    /\ ran = <<"fetch">>
    /\ ret.returned

\* True of a resampled row whose Close, RSI and EMA_50 are all defined.
Complete(row) ==
    ~IsNaN(row.Close) /\ ~IsNaN(row.RSI) /\ ~IsNaN(row.EMA_50)

\* C3: every row of the table has defined Close, RSI and EMA_50: the rows
\* shown are the last 12 resampled rows with complete values (all of them
\* when there are fewer), in ascending timestamp order.
C3_OnlyCompleteRowsShown ==
    (tool = "price" /\ pc = "done" /\ IsTable(ret))
        => LET complete == SelectSeq(data_4h, Complete)
               shown    == IF Len(complete) <= 12 THEN complete
                           ELSE SubSeq(complete, Len(complete) - 11, Len(complete))
           IN  /\ \A i \in 1..Len(TableLines) :
                     \A c \in 1..3 : TableLines[i].cells[c].txt = "number"
               /\ Len(TableLines) = Len(shown)
               /\ \A i \in 1..Len(TableLines) : TableLines[i].ts = shown[i].ts
               /\ \A i \in 1..(Len(TableLines) - 1) :
                     TableLines[i].ts < TableLines[i + 1].ts

Ran(step) == \E i \in 1..Len(ran) : ran[i] = step

MinOf(S) == CHOOSE x \in S : \A y \in S : x <= y
MaxOf(S) == CHOOSE x \in S : \A y \in S : x >= y

\* The bars of the fetched history that fall in 4-hour window w, and those
\* of them that carry field f.
Obs(w) == {i \in 1..Len(history) : history[i].ts \div 4 = w}
Avail(f, w) == {i \in Obs(w) : ~IsNaN(history[i][f])}

Windows == IF history = <<>> THEN {} ELSE 0..(history[Len(history)].ts \div 4)
RowsAt(w) == {j \in 1..Len(data_4h) : data_4h[j].ts = 4 * w}
Kept(w) == \A f \in {"Open", "High", "Low", "Close"} : Avail(f, w) # {}

\* C5 as stated: each resampled row holds the open of the first bar of its
\* window, the maximum high, the minimum low and the close of the last bar;
\* a window with no bar, or with a field missing after aggregation, has no
\* row.
C5_FirstAndLastObservation ==
    (tool = "price" /\ Ran("resample"))
        => /\ \A j \in 1..Len(data_4h) :
                LET w == data_4h[j].ts \div 4
                IN  /\ Obs(w) # {}
                    /\ data_4h[j].Open = history[MinOf(Obs(w))].Open
                    /\ data_4h[j].Close = history[MaxOf(Obs(w))].Close
                    /\ \A i \in Avail("High", w) :
                          FLe(history[i].High, data_4h[j].High)
                    /\ \A i \in Avail("Low", w) :
                          FLe(data_4h[j].Low, history[i].Low)
           /\ \A w \in Windows : Obs(w) = {} => RowsAt(w) = {}

\* C5 amended: each resampled row holds the first open present in its
\* window, the greatest high present, the least low present and the last
\* close present; a window has a row exactly when each of the four fields
\* is present in at least one of its bars, and the rows ascend in time.
C5_FirstAndLastPresentValue ==
    (tool = "price" /\ Ran("resample"))
        => /\ \A w \in Windows :
                IF Kept(w)
                THEN /\ Cardinality(RowsAt(w)) = 1
                     /\ LET row == data_4h[CHOOSE j \in RowsAt(w) : TRUE]
                        IN  /\ row.Open = history[MinOf(Avail("Open", w))].Open
                            /\ row.Close = history[MaxOf(Avail("Close", w))].Close
                            /\ \E i \in Avail("High", w) : row.High = history[i].High
                            /\ \A i \in Avail("High", w) : FLe(history[i].High, row.High)
                            /\ \E i \in Avail("Low", w) : row.Low = history[i].Low
                            /\ \A i \in Avail("Low", w) : FLe(row.Low, history[i].Low)
                ELSE RowsAt(w) = {}
           /\ \A j \in 1..Len(data_4h) :
                /\ data_4h[j].ts % 4 = 0
                /\ (data_4h[j].ts \div 4) \in Windows
                /\ j > 1 => data_4h[j - 1].ts < data_4h[j].ts

\* A kept window whose first bar has no open and whose last bar has no
\* close, next to a window without bars.
C5_Witness ==
    /\ tool = "price"
    /\ pc = "indicators"
    /\ \E w \in Windows :
          /\ Kept(w)
          /\ RowsAt(w) # {}
          /\ MinOf(Obs(w)) < MinOf(Avail("Open", w))
          /\ MaxOf(Avail("Close", w)) < MaxOf(Obs(w))
    /\ \E w \in Windows : Obs(w) = {} /\ RowsAt(w) = {}

\* C6: the news tool's string holds at most 3 records, one per result the
\* search returned, in the order returned, each with the result's title,
\* date and snippet or the placeholder for a field the result lacks.
C6_AtMost3RecordsInOrder ==
    (tool = "news" /\ pc = "done")
        => /\ Cardinality(RecordStarts) <= 3
           /\ exc = NoException =>
                /\ Cardinality(RecordStarts) = Min(Len(matching), 3)
                /\ \A i \in 1..Min(Len(matching), 3) :
                      LET at == 8 * (i - 1) + 1
                          r  == matching[i]
                      IN  /\ at \in RecordStarts
                          /\ ret.frags[at + 1] =
                                Val(IF r.title = Missing THEN "No Title" ELSE r.title)
                          /\ IsLit(ret.frags[at + 2], "\nDATE: ")
                          /\ ret.frags[at + 3] =
                                Val(IF r.date = Missing THEN "Unknown Date" ELSE r.date)
                          /\ IsLit(ret.frags[at + 4], "\nSNIPPET: ")
                          /\ ret.frags[at + 5] =
                                Val(IF r.body = Missing THEN "No snippet" ELSE r.body)
                          /\ IsLit(ret.frags[at + 6], "\n---")

C6_Witness ==
    /\ tool = "news"
    /\ pc = "done"
    /\ exc = NoException
    /\ Len(matching) = 4
    /\ Cardinality(RecordStarts) = 3
    /\ matching[1] # matching[2]

\* C7: with no result and no failure the news tool's string contains
\* "Assume Neutral" and no record; with one result or more it contains a
\* record for each and not the tool's own "Assume Neutral".
C7_SentinelIffNoResults ==
    (tool = "news" /\ pc = "done" /\ exc = NoException)
        => /\ ret.returned
           /\ matching = <<>> => (HasSentinel /\ RecordStarts = {})
           /\ matching # <<>> =>
                 (~HasSentinel /\ Cardinality(RecordStarts) = Min(Len(matching), 3))

C7_Witness ==
    /\ tool = "news"
    /\ pc = "done"
    /\ exc = NoException
    /\ matching = <<>>
    /\ HasSentinel


\* The closes of the resampled frame, once the indicators are computed.
Closes == [i \in 1..Len(data_4h) |-> data_4h[i].Close]

\* Rows whose 14-row window is full: a window covers the deltas of rows
\* i-13..i, and row 1 has no delta.
FullWindow(i) == i >= 14 /\ i <= Len(data_4h)
Falls(i) == \E j \in (i - 13)..i : j >= 2 /\ FLt(Closes[j], Closes[j - 1])
Rises(i) == \E j \in (i - 13)..i : j >= 2 /\ FLt(Closes[j - 1], Closes[j])
RisesThroughout(i) ==
    \A j \in (i - 13)..i : j >= 2 => FLt(Closes[j - 1], Closes[j])

\* C8: on every row whose trailing 14-row average loss is positive (some
\* close in the window fell), RSI is a number between 0 and 100.
C8_RSIWithin0And100 ==
    (tool = "price" /\ Ran("rsi"))
        => \A i \in 1..Len(data_4h) :
              (FullWindow(i) /\ Falls(i))
                 => /\ IsNum(data_4h[i].RSI)
                    /\ FLe(Int2F(0), data_4h[i].RSI)
                    /\ FLe(data_4h[i].RSI, Int2F(100))

C8_Witness ==
    /\ tool = "price"
    /\ pc = "select"
    /\ \E i \in 1..Len(data_4h) :
          /\ FullWindow(i)
          /\ Falls(i)
          /\ Rises(i)
          /\ FLt(Int2F(0), data_4h[i].RSI)
          /\ FLt(data_4h[i].RSI, Int2F(100))

\* C9: on a row whose closes rose at every step of its trailing 14-row
\* window the RSI is the number 100; the call does not fail, and the table
\* shows 100 for that row.
C9_RisingWindowGives100 ==
    (tool = "price" /\ Ran("rsi"))
        => \A i \in 1..Len(data_4h) :
              (FullWindow(i) /\ RisesThroughout(i))
                 => /\ data_4h[i].RSI = Int2F(100)
                    /\ (pc = "done" /\ exc = NoException)
                          => /\ IsTable(ret)
                             /\ \A l \in 1..Len(TableLines) :
                                   TableLines[l].ts = data_4h[i].ts
                                      => TableLines[l].cells[2] =
                                            [txt |-> "number", v |-> Int2F(100)]

C9_Witness ==
    /\ tool = "price"
    /\ pc = "done"
    /\ IsTable(ret)
    /\ \E i \in 1..Len(data_4h) :
          /\ FullWindow(i)
          /\ i >= 15
          /\ RisesThroughout(i)
          /\ \E l \in 1..Len(TableLines) :
                /\ TableLines[l].ts = data_4h[i].ts
                /\ TableLines[l].cells[2].v = Int2F(100)

\* A float of the grid in grid units (1/100000).
InUnits(x) == x.n * (100000 \div x.d)

\* C10: EMA_50 starts at the first close and then follows
\* EMA_t = a close_t + (1 - a) EMA_(t-1), a = 2/51, to within the rounding
\* of one operation; when every close equals c, every EMA_50 equals c.
C10_EMARecurrence ==
    (tool = "price" /\ Ran("ema"))
        => /\ Len(data_4h) >= 1 => data_4h[1].EMA_50 = data_4h[1].Close
           /\ \A t \in 2..Len(data_4h) :
                 LET exact51 == 2 * InUnits(data_4h[t].Close)
                                + 49 * InUnits(data_4h[t - 1].EMA_50)
                     got51   == 51 * InUnits(data_4h[t].EMA_50)
                 IN  2 * Abs(got51 - exact51) <= 51
           /\ (\A t \in 1..Len(data_4h) : data_4h[t].Close = data_4h[1].Close)
                 => \A t \in 1..Len(data_4h) : data_4h[t].EMA_50 = data_4h[1].Close

C10_Witness ==
    /\ tool = "price"
    /\ pc = "select"
    /\ Len(data_4h) >= 15
    /\ \A t \in 1..Len(data_4h) : data_4h[t].Close = data_4h[1].Close
    /\ data_4h[Len(data_4h)].EMA_50 = data_4h[1].Close

=============================================================================
